---- MODULE Spec2Model ----
(***************************************************************************)
(* Market-breadth generator (src/generate_breadth.py).                      *)
(*                                                                         *)
(* The source file holds two scripts.  Lines 17-243 are the CryptoCompare   *)
(* script: main() resolves the universe from Binance and fans the symbols   *)
(* out to a ThreadPool whose workers (process_base) update one shared dict  *)
(* `breadth`.  Lines 1-16 and 245-447 are the CoinGecko script: a           *)
(* sequential loop that fetches each symbol (one retry on 429) and folds it *)
(* into the dict `rows`.  The variable `script` says which of the two runs. *)
(*                                                                         *)
(* Scaling.  The EMA windows 75 and 200, the 200-day minimum, the 365 days  *)
(* between warm-up start and output start and max_pages=50 are scaled down  *)
(* to EmaShort, EmaLong, OutDay and MaxPages; the order relations between   *)
(* them (EmaShort < EmaLong = minimum length < OutDay) are the source's.    *)
(* A timestamp is a pair <<day, ms>>: the calendar day (UTC) counted from   *)
(* the warm-up start, and the milliseconds into that day.                   *)
(***************************************************************************)
EXTENDS Integers, Sequences, FiniteSets, TLC

\* ------------------------------------------------------------------ bounds
\* window of the short EMA (75 in the source)
EmaShort == 2
\* window of the long EMA and minimum history length (200 in the source)
EmaLong == 3
\* longest history CoinGecko returns, in daily points
MaxLen == 5
\* first calendar day of the output (OUTPUT_START - EMA_WARMUP_START, in days)
OutDay == 3
\* the first day of a returned history: one that is warmed up by OutDay, one that is not
EarlyStart == 1
LateStart == 2
\* pages of the ticker listing (max_pages=50 in the source)
MaxPages == 2
\* size of the thread pool
CONCURRENCY == 4

MinDays == EmaLong

\* ------------------------------------------------------------ pure helpers
\* an EMA array entry: Python's None, a float NaN, or the fraction num/den
None == [k |-> "None", num |-> 0, den |-> 1]
NaN == [k |-> "NaN", num |-> 0, den |-> 1]
Val(n, d) == [k |-> "val", num |-> n, den |-> d]

RECURSIVE Pow(_, _)
Pow(b, e) == IF e = 0 THEN 1 ELSE b * Pow(b, e - 1)

Range(f) == {f[i] : i \in DOMAIN f}

\* mutant of EwmNum: the recurrence is started at zero instead of the first close
RECURSIVE EwmNumSeededAtZero(_, _, _)
EwmNumSeededAtZero(closes, p, i) ==
    IF i = 1 THEN 0
    ELSE (p - 1) * EwmNumSeededAtZero(closes, p, i - 1) + 2 * closes[i] * Pow(p + 1, i - 2)

\* pandas ewm(span=p, adjust=False).mean() at row i (1-based), as the exact
\* fraction EwmNum / (p+1)^(i-1):  y_1 = x_1,  y_i = y_(i-1) + 2/(p+1) * (x_i - y_(i-1))
RECURSIVE EwmNum(_, _, _)
EwmNum(closes, p, i) ==
    IF i = 1 THEN closes[1]
    ELSE (p - 1) * EwmNum(closes, p, i - 1) + 2 * closes[i] * Pow(p + 1, i - 2)

\* ta.trend.ema_indicator(closes, p): one entry per close; the first p-1 are NaN
\* (min_periods = p), the others the recursive ewm value.
ema_indicator(closes, p) ==
    [i \in 1..Len(closes) |->
        IF i < p THEN NaN
        ELSE Val(EwmNum(closes, p, i), Pow(p + 1, i - 1))]

\* pad_ema: (period-1) None entries in front of the array it is given
pad_ema(arr, period) == [i \in 1..(period - 1) |-> None] \o arr

\* Python's  c > e  for a float e: False when e is NaN
Gt(c, e) == IF e = NaN THEN FALSE ELSE c * e.den > e.num

\* strftime("%Y-%m-%d") of a timestamp: its calendar day
DateOf(tm) == tm[1]

\* sorted(S) for a set of calendar days
RECURSIVE SortedDays(_)
SortedDays(S) ==
    IF S = {} THEN <<>>
    ELSE LET m == CHOOSE x \in S : \A y \in S : x <= y
         IN <<m>> \o SortedDays(S \ {m})

\* timestamps in ascending order: by day, then by milliseconds into the day
TmLess(a, b) == a[1] < b[1] \/ (a[1] = b[1] /\ a[2] < b[2])

RECURSIVE SortedTimes(_)
SortedTimes(S) ==
    IF S = {} THEN <<>>
    ELSE LET m == CHOOSE x \in S : \A y \in S \ {x} : TmLess(x, y)
         IN <<m>> \o SortedTimes(S \ {m})

\* -------------------------------------------------- the provider boundary
\* base assets in sorted order; sorted(S) keeps this order
AllBases == <<"BNB", "BTC", "USDC">>
Symbols == {"BNB", "BTC"}
Sorted(S) == SelectSeq(AllBases, LAMBDA b : b \in S)

\* STABLES of either script (USDC is in both sets)
STABLES == {"USDC"}

\* entries Binance /exchangeInfo may list
ExchangeSymbols ==
    { [baseAsset |-> "BNB",  quoteAsset |-> "USDT", status |-> "TRADING", isSpotTradingAllowed |-> TRUE],
      [baseAsset |-> "BTC",  quoteAsset |-> "USDT", status |-> "TRADING", isSpotTradingAllowed |-> TRUE],
      [baseAsset |-> "USDC", quoteAsset |-> "USDT", status |-> "TRADING", isSpotTradingAllowed |-> TRUE],
      [baseAsset |-> "BNB",  quoteAsset |-> "BTC",  status |-> "TRADING", isSpotTradingAllowed |-> TRUE],
      [baseAsset |-> "BTC",  quoteAsset |-> "USDT", status |-> "BREAK",   isSpotTradingAllowed |-> TRUE],
      [baseAsset |-> "BNB",  quoteAsset |-> "USDT", status |-> "TRADING", isSpotTradingAllowed |-> FALSE] }

\* tickers CoinGecko /exchanges/binance/tickers may list (all of them spot pairs);
\* is_stale marks a pair that no longer trades
Tickers ==
    { [base |-> "BNB",  target |-> "USDT", is_stale |-> FALSE],
      [base |-> "BTC",  target |-> "USDT", is_stale |-> FALSE],
      [base |-> "USDC", target |-> "USDT", is_stale |-> FALSE],
      [base |-> "BTC",  target |-> "BUSD", is_stale |-> FALSE],
      [base |-> "BTC",  target |-> "USDT", is_stale |-> TRUE] }

\* the base assets a listing offers as an active, spot-tradable USDT pair
SpotUsdtListed(listing) ==
    {e.baseAsset : e \in {x \in listing :
        x.status = "TRADING" /\ x.isSpotTradingAllowed /\ x.quoteAsset = "USDT"}}
ActiveUsdtTickers(tickers) ==
    {u.base : u \in {x \in tickers : ~x.is_stale /\ x.target = "USDT"}}

\* close prices of a history: constant, or rising by one a day
Shapes == {"flat", "rising"}
Close(shape, i) == IF shape = "flat" THEN 2 ELSE i + 1

\* a history of n daily bars from calendar day `start`, each stamped ms into its day
Bars(shape, n, start, ms) ==
    [i \in 1..n |-> [time |-> <<start + i - 1, ms>>, close |-> Close(shape, i)]]

Starts == {EarlyStart, LateStart}
IntraDay == {0, 1}

\* what CryptoCompare histoday may carry: no bars, one bar too few, or just enough
HistodayPayloads ==
    {<<>>} \cup {Bars(sh, n, st, ms) :
                    sh \in Shapes, n \in {MinDays - 1, MinDays}, st \in Starts, ms \in IntraDay}

\* what CoinGecko market_chart/range may carry; the request is from START on, so a
\* history can begin on day 0, the warm-up start itself
PricePayloads ==
    {<<>>, Bars("rising", MinDays, 0, 0)}
    \cup {Bars(sh, n, st, ms) :
             sh \in Shapes, n \in {MinDays - 1, MinDays, MaxLen}, st \in Starts, ms \in IntraDay}

\* the bars an error page or a mislabelled body may carry
SomeBars == Bars("rising", MinDays, EarlyStart, 0)

\* an HTTP exchange: status (0: no response, a transport error), whether the
\* content type is application/json, whether the body parses as JSON, its bars
Resp(st, js, ps, b) == [status |-> st, json |-> js, parses |-> ps, bars |-> b]

Responses(Payloads) ==
    {Resp(0, FALSE, FALSE, <<>>)}
    \cup {Resp(200, TRUE, TRUE, b) : b \in Payloads}
    \cup {Resp(200, FALSE, FALSE, <<>>), Resp(200, FALSE, TRUE, SomeBars)}
    \cup {Resp(401, TRUE, TRUE, <<>>), Resp(429, TRUE, TRUE, <<>>)}
    \cup {Resp(500, FALSE, FALSE, <<>>), Resp(500, TRUE, TRUE, SomeBars)}

\* what the log keeps of a response: its status and whether its content type is JSON
Seen(r) == [status |-> r.status, json |-> r.json]

\* ------------------------------------------------------------------ state
VARIABLES
    script,     \* "cryptocompare" (lines 17-243) or "coingecko" (lines 1-16, 245-447)
    pc,         \* position of the main program
    bases,      \* the resolved universe, sorted
    fit,        \* the base assets the listing offered as an active spot USDT pair
    page,       \* coingecko: page of the ticker listing being fetched
    allbases,   \* coingecko: bases collected from the ticker pages
    warned,     \* coingecko: "Failed to fetch tickers page" has been printed
    sym2id,     \* coingecko: the symbols that have a CoinGecko id
    k,          \* coingecko: index into bases of the symbol being handled
    lpc,        \* coingecko: position inside fetch_historical_prices_usd / the loop body
    hist,       \* coingecko: per symbol, the series its fetch returned
    lastbars,   \* coingecko: per symbol, the price points of the latest response
    rows,       \* coingecko: the tally, keyed by timestamp
    wpc,        \* cryptocompare: per symbol, the position of its process_base call
    wlen,       \* cryptocompare: per symbol, len(df) of the frame its fetch returned
    wi,         \* cryptocompare: per symbol, the loop index i (1-based)
    wdates,     \* cryptocompare: per symbol, the local list `dates`
    wcloses,    \* cryptocompare: per symbol, the local list `closes`
    wref,       \* cryptocompare: per symbol, the inner dict its pending += has loaded
    wval,       \* cryptocompare: per symbol, the counter value its pending += has read
    breadth,    \* cryptocompare: date -> the inner dict bound to it: the symbol whose
                \* worker created it (id) and its four counters
    log,        \* per symbol, the responses its history requests received
    fate,       \* per symbol: "pending", "skipped", or "accepted" (passed the length check)
    series75,   \* the output series of the short window
    series200,  \* the output series of the long window
    written     \* whether data/BR75.csv and data/BR200.csv have been written

vars == <<script, pc, bases, fit, page, allbases, warned, sym2id, k, lpc, hist, lastbars, rows,
          wpc, wlen, wi, wdates, wcloses, wref, wval, breadth,
          log, fate, series75, series200, written>>

cgVars == <<page, allbases, warned, sym2id, k, lpc, hist, lastbars, rows>>
ccVars == <<wpc, wlen, wi, wdates, wcloses, wref, wval, breadth>>
outVars == <<series75, series200, written>>

Init ==
    /\ script \in {"cryptocompare", "coingecko"}
    /\ pc = "universe"
    /\ bases = <<>>
    /\ fit = {}
    /\ page = 1
    /\ allbases = {}
    /\ warned = FALSE
    /\ sym2id = {}
    /\ k = 1
    /\ lpc = "top"
    /\ hist = [s \in Symbols |-> <<>>]
    /\ lastbars = [s \in Symbols |-> <<>>]
    /\ rows = <<>>
    /\ wpc = [s \in Symbols |-> "none"]
    /\ wlen = [s \in Symbols |-> 0]
    /\ wi = [s \in Symbols |-> 1]
    /\ wdates = [s \in Symbols |-> <<>>]
    /\ wcloses = [s \in Symbols |-> <<>>]
    /\ wref = [s \in Symbols |-> "none"]
    /\ wval = [s \in Symbols |-> 0]
    /\ breadth = <<>>
    /\ log = [s \in Symbols |-> <<>>]
    /\ fate = [s \in Symbols |-> "pending"]
    /\ series75 = <<>>
    /\ series200 = <<>>
    /\ written = FALSE

\* ------------------------------------------ the cryptocompare script: main()
\* the filter of fetch_usdt_bases_from_binance
Eligible(s) ==
    /\ s.status = "TRADING"
    /\ s.isSpotTradingAllowed
    /\ s.quoteAsset = "USDT"
    /\ s.baseAsset \notin STABLES

\* main(), line 161: the listing request fails (the exception leaves main), or
\* returns a listing whose eligible bases become the universe; the pool is created.
fetch_usdt_bases_from_binance ==
    /\ script = "cryptocompare"
    /\ pc = "universe"
    /\ \/ /\ pc' = "crashed"
          /\ UNCHANGED <<bases, fit, wpc>>
       \/ \E listing \in SUBSET ExchangeSymbols :
            LET found == Sorted({s.baseAsset : s \in {e \in listing : Eligible(e)}})
            IN /\ bases' = found
               /\ fit' = SpotUsdtListed(listing)
               /\ wpc' = [s \in Symbols |-> IF s \in Range(found) THEN "queued" ELSE "none"]
               /\ pc' = "pool"
    /\ UNCHANGED <<script, cgVars, wlen, wi, wdates, wcloses, wref, wval, breadth,
                   log, fate, outVars>>

\* fetch_history_from_cc: the DataFrame it returns for a response (<<>>: empty)
fetch_history_from_cc(r) ==
    IF r.status = 0 THEN <<>>
    ELSE IF r.status = 401 THEN <<>>
    ELSE IF r.status = 429 THEN <<>>
    ELSE IF ~r.parses THEN <<>>
    ELSE r.bars

\* mutant of TooShort: a history one day short of the minimum passes
TooShortOffByOne(df) == Len(df) < MinDays - 1

\* the length check of lines 179 and 398: df.empty or len(df) < 200
TooShort(df) == Len(df) < MinDays

\* the padded EMA arrays of process_base, lines 185-186
Ema75Arr(closes) == pad_ema(ema_indicator(closes, EmaShort), EmaShort)
Ema200Arr(closes) == pad_ema(ema_indicator(closes, EmaLong), EmaLong)

\* where process_base goes after each shared access of iteration i (lines 200-208)
Pos(p, i) == [pc |-> p, i |-> i]
AfterA200(closes, i) == IF i < Len(closes) THEN Pos("check", i + 1) ELSE Pos("done", i)
AfterT200(closes, i) ==
    IF Gt(closes[i], Ema200Arr(closes)[i]) THEN Pos("rd_a200", i) ELSE AfterA200(closes, i)
AfterA75(closes, i) ==
    IF Ema200Arr(closes)[i] # None THEN Pos("rd_t200", i) ELSE AfterA200(closes, i)
AfterT75(closes, i) ==
    IF Gt(closes[i], Ema75Arr(closes)[i]) THEN Pos("rd_a75", i) ELSE AfterA75(closes, i)
AfterInit(closes, i) ==
    IF Ema75Arr(closes)[i] # None THEN Pos("rd_t75", i) ELSE AfterA75(closes, i)

\* an inner dict of breadth, as line 198 creates it
Counters == {"a75", "t75", "a200", "t200"}
NewEntry(s) == [id |-> s, a75 |-> 0, t75 |-> 0, a200 |-> 0, t200 |-> 0]

\* the counter a position of process_base reads or writes
Field(p) ==
    CASE p \in {"rd_t75", "wr_t75"} -> "t75"
      [] p \in {"rd_a75", "wr_a75"} -> "a75"
      [] p \in {"rd_t200", "wr_t200"} -> "t200"
      [] p \in {"rd_a200", "wr_a200"} -> "a200"

Active(s) == wpc[s] \notin {"none", "queued", "done"}

\* process_base, lines 176-189, for the next queued base once a pool thread is
\* free: the history request, the length check, the local lists.
StartBase(s) ==
    /\ pc = "pool"
    /\ wpc[s] = "queued"
    /\ \A j \in 1..Len(bases) : \A i \in 1..(j - 1) : bases[j] = s => wpc[bases[i]] # "queued"
    /\ Cardinality({t \in Symbols : Active(t)}) < CONCURRENCY
    /\ \E r \in Responses(HistodayPayloads) :
         LET df == fetch_history_from_cc(r)
         IN /\ log' = [log EXCEPT ![s] = Append(@, Seen(r))]
            /\ wlen' = [wlen EXCEPT ![s] = Len(df)]
            /\ IF TooShort(df)
               THEN /\ fate' = [fate EXCEPT ![s] = "skipped"]
                    /\ wpc' = [wpc EXCEPT ![s] = "done"]
                    /\ UNCHANGED <<wdates, wcloses>>
               ELSE /\ fate' = [fate EXCEPT ![s] = "accepted"]
                    /\ wcloses' = [wcloses EXCEPT ![s] = [i \in 1..Len(df) |-> df[i].close]]
                    /\ wdates' = [wdates EXCEPT ![s] = [i \in 1..Len(df) |-> DateOf(df[i].time)]]
                    /\ wpc' = [wpc EXCEPT ![s] = "check"]
    /\ UNCHANGED <<script, pc, bases, fit, cgVars, wi, wref, wval, breadth, outVars>>

\* line 197: the test  date not in breadth
CheckDate(s) ==
    /\ wpc[s] = "check"
    /\ LET nxt == AfterInit(wcloses[s], wi[s])
       IN IF wdates[s][wi[s]] \notin DOMAIN breadth
          THEN /\ wpc' = [wpc EXCEPT ![s] = "assign"]
               /\ UNCHANGED wi
          ELSE /\ wpc' = [wpc EXCEPT ![s] = nxt.pc]
               /\ wi' = [wi EXCEPT ![s] = nxt.i]
    /\ UNCHANGED <<script, pc, bases, fit, cgVars, wlen, wdates, wcloses, wref, wval, breadth,
                   log, fate, outVars>>

\* line 198: bind a fresh zeroed inner dict to the date
InitDate(s) ==
    /\ wpc[s] = "assign"
    /\ LET date == wdates[s][wi[s]]
           nxt == AfterInit(wcloses[s], wi[s])
       IN /\ breadth' = (date :> NewEntry(s)) @@ breadth
          /\ wpc' = [wpc EXCEPT ![s] = nxt.pc]
          /\ wi' = [wi EXCEPT ![s] = nxt.i]
    /\ UNCHANGED <<script, pc, bases, fit, cgVars, wlen, wdates, wcloses, wref, wval,
                   log, fate, outVars>>

\* the first half of a  breadth[date][c] += 1  (lines 201, 203, 206, 208):
\* load the inner dict bound to the date and read its counter
LoadCounter(s) ==
    /\ wpc[s] \in {"rd_t75", "rd_a75", "rd_t200", "rd_a200"}
    /\ LET date == wdates[s][wi[s]]
           c == Field(wpc[s])
       IN /\ wref' = [wref EXCEPT ![s] = breadth[date].id]
          /\ wval' = [wval EXCEPT ![s] = breadth[date][c]]
          /\ wpc' = [wpc EXCEPT ![s] = "wr_" \o c]
    /\ UNCHANGED <<script, pc, bases, fit, cgVars, wlen, wi, wdates, wcloses, breadth,
                   log, fate, outVars>>

\* the position after the store into counter c
AfterStore(c, closes, i) ==
    CASE c = "t75" -> AfterT75(closes, i)
      [] c = "a75" -> AfterA75(closes, i)
      [] c = "t200" -> AfterT200(closes, i)
      [] c = "a200" -> AfterA200(closes, i)

\* the second half of the += : store value+1 into the inner dict that was loaded.
\* When line 198 of another worker has meanwhile bound a new dict to the date, the
\* store goes to the dict that is no longer reachable from breadth.
StoreCounter(s) ==
    /\ wpc[s] \in {"wr_t75", "wr_a75", "wr_t200", "wr_a200"}
    /\ LET date == wdates[s][wi[s]]
           c == Field(wpc[s])
           nxt == AfterStore(c, wcloses[s], wi[s])
       IN /\ breadth' = IF breadth[date].id = wref[s]
                       THEN [breadth EXCEPT ![date][c] = wval[s] + 1]
                       ELSE breadth
          /\ wpc' = [wpc EXCEPT ![s] = nxt.pc]
          /\ wi' = [wi EXCEPT ![s] = nxt.i]
          /\ wref' = [wref EXCEPT ![s] = "none"]
          /\ wval' = [wval EXCEPT ![s] = 0]
    /\ UNCHANGED <<script, pc, bases, fit, cgVars, wlen, wdates, wcloses,
                   log, fate, outVars>>

\* mutant of PoolJoin: main goes on without waiting for the workers
PoolJoinEarly ==
    /\ pc = "pool"
    /\ pc' = "finalize"
    /\ UNCHANGED <<script, bases, fit, cgVars, ccVars, log, fate, outVars>>

\* lines 214-216: pool.map returns once every base has been processed
PoolJoin ==
    /\ pc = "pool"
    /\ \A s \in Symbols : wpc[s] \in {"none", "done"}
    /\ pc' = "finalize"
    /\ UNCHANGED <<script, bases, fit, cgVars, ccVars, log, fate, outVars>>

\* the entry of breadth for a date
Entry(date) == breadth[date]

\* round(a / t * 100.0, 2), in hundredths of a percent
Round2(a, t) == (20000 * a + t) \div (2 * t)

PctCC(a, t) == IF t > 0 THEN Round2(a, t) ELSE 0

\* lines 219-232: the two series, dates ascending from OUTPUT_START on
FinalizeCC ==
    /\ script = "cryptocompare"
    /\ pc = "finalize"
    /\ LET all_dates == SortedDays({d \in DOMAIN breadth : d >= OutDay})
       IN /\ series75' = [i \in 1..Len(all_dates) |->
                [time |-> <<all_dates[i], 0>>,
                 num |-> PctCC(Entry(all_dates[i])["a75"], Entry(all_dates[i])["t75"]),
                 den |-> 100]]
          /\ series200' = [i \in 1..Len(all_dates) |->
                [time |-> <<all_dates[i], 0>>,
                 num |-> PctCC(Entry(all_dates[i])["a200"], Entry(all_dates[i])["t200"]),
                 den |-> 100]]
    /\ pc' = "write"
    /\ UNCHANGED <<script, bases, fit, cgVars, ccVars, log, fate, written>>

\* lines 235-236: write_pine_csv of both series
WriteCC ==
    /\ script = "cryptocompare"
    /\ pc = "write"
    /\ written' = TRUE
    /\ pc' = "done"
    /\ UNCHANGED <<script, bases, fit, cgVars, ccVars, log, fate, series75, series200>>

NextCC ==
    \/ fetch_usdt_bases_from_binance
    \/ \E s \in Symbols : StartBase(s)
    \/ \E s \in Symbols : CheckDate(s)
    \/ \E s \in Symbols : InitDate(s)
    \/ \E s \in Symbols : LoadCounter(s)
    \/ \E s \in Symbols : StoreCounter(s)
    \/ PoolJoin
    \/ FinalizeCC
    \/ WriteCC

SpecCC == Init /\ [][NextCC]_vars

\* ------------------------------------- the coingecko script: __main__ block
\* lines 355-359 once the page loop of fetch_all_binance_usdt_bases has ended:
\* the stablecoin filter, and sys.exit when nothing is left
Resolved(found) ==
    LET left == SelectSeq(Sorted(found), LAMBDA b : b \notin STABLES)
    IN /\ bases' = left
       /\ pc' = IF left = <<>> THEN "exit" ELSE "coinlist"
       /\ UNCHANGED page

\* fetch_all_binance_usdt_bases, one pass of its page loop (lines 257-281), and
\* on leaving the loop lines 283 and 351-359
fetch_all_binance_usdt_bases ==
    /\ script = "coingecko"
    /\ pc = "universe"
    /\ \/ /\ allbases' = allbases                 \* the request fails: warn, break
          /\ warned' = TRUE
          /\ fit' = fit
          /\ Resolved(allbases)
       \/ \E tickers \in SUBSET Tickers, has_more \in BOOLEAN :
            LET found == allbases \cup {t.base : t \in {u \in tickers : u.target = "USDT"}}
            IN /\ warned' = warned
               /\ fit' = fit \cup ActiveUsdtTickers(tickers)
               /\ IF tickers = {}
                  THEN /\ allbases' = allbases       \* an empty page: break
                       /\ Resolved(allbases)
                  ELSE /\ allbases' = found
                       /\ IF has_more /\ page < MaxPages
                          THEN /\ page' = page + 1
                               /\ UNCHANGED <<pc, bases>>
                          ELSE Resolved(found)
    /\ UNCHANGED <<script, sym2id, k, lpc, hist, lastbars, rows, ccVars, log, fate, outVars>>

\* lines 362-364: fetch_coin_list (its exception leaves the script) and
\* build_symbol_to_id_map: the symbols the coin list gives an id
fetch_coin_list ==
    /\ script = "coingecko"
    /\ pc = "coinlist"
    /\ \/ /\ pc' = "crashed"
          /\ UNCHANGED sym2id
       \/ \E ids \in SUBSET Range(bases) :
            /\ sym2id' = ids
            /\ pc' = "loop"
    /\ UNCHANGED <<script, bases, fit, page, allbases, warned, k, lpc, hist, lastbars, rows, ccVars,
                   log, fate, outVars>>

\* the symbol is skipped: the `continue` of lines 378, 388, 392, 396, 401
Skip(s) ==
    /\ fate' = [fate EXCEPT ![s] = "skipped"]
    /\ k' = k + 1
    /\ lpc' = "top"

\* lines 374-378: no CoinGecko id for the base
NoCoinId ==
    /\ script = "coingecko"
    /\ pc = "loop"
    /\ lpc = "top"
    /\ k <= Len(bases)
    /\ bases[k] \notin sym2id
    /\ Skip(bases[k])
    /\ UNCHANGED <<script, pc, bases, fit, page, allbases, warned, sym2id, hist, lastbars, rows, ccVars,
                   log, outVars>>

\* the test of lines 313 and 331
Accepted(r) == r.status = 200 /\ r.json

\* r.raise_for_status() raises
RaisesForStatus(r) == r.status >= 400

\* lines 317-321: one row per calendar day, the last point of that day
Daily(bars) ==
    LET days == SortedDays({DateOf(bars[i].time) : i \in 1..Len(bars)})
        last(d) == CHOOSE i \in 1..Len(bars) :
                      /\ DateOf(bars[i].time) = d
                      /\ \A j \in 1..Len(bars) : DateOf(bars[j].time) = d => j <= i
    IN [n \in 1..Len(days) |-> bars[last(days[n])]]

\* lines 314-321 and 332-339: the accepted response becomes the returned DataFrame;
\* r.json() raising is caught by the caller's except Exception
Return(s, r) ==
    IF ~r.parses
    THEN /\ Skip(s)
         /\ UNCHANGED hist
    ELSE /\ hist' = [hist EXCEPT ![s] = Daily(r.bars)]
         /\ lpc' = "returned"
         /\ UNCHANGED <<k, fate>>

\* mutant of FirstOutcome: a transport error is retried like a 429
FirstOutcomeRetryingErrors(r) ==
    IF r.status = 0 THEN "retry"
    ELSE IF Accepted(r) THEN "return"
    ELSE IF r.status = 401 THEN "raise"
    ELSE IF r.status = 429 THEN "retry"
    ELSE IF RaisesForStatus(r) THEN "raise"
    ELSE "none"

\* mutant of FirstOutcome: a 401 is retried like a 429
FirstOutcomeRetrying401(r) ==
    IF r.status = 0 THEN "raise"
    ELSE IF Accepted(r) THEN "return"
    ELSE IF r.status \in {401, 429} THEN "retry"
    ELSE IF RaisesForStatus(r) THEN "raise"
    ELSE "none"

\* fetch_historical_prices_usd, lines 310-324 and 345: where the first response
\* leads.  "none": no branch returns or raises, the function returns None.
FirstOutcome(r) ==
    IF r.status = 0 THEN "raise"                 \* requests.get raises
    ELSE IF Accepted(r) THEN "return"
    ELSE IF r.status = 401 THEN "raise"          \* PermissionError
    ELSE IF r.status = 429 THEN "retry"
    ELSE IF RaisesForStatus(r) THEN "raise"      \* line 345: HTTPError
    ELSE "none"

\* mutant of RetryOutcome: the retry's response is never used
RetryOutcomeGivingUp(r2) == "raise"

\* lines 330-345: where the response to the retry leads.  A response that is not
\* accepted raises at line 341 (429), at line 342 (another 4xx/5xx) or at line 345
\* (raise_for_status of the first response, the 429).
RetryOutcome(r2) ==
    IF r2.status = 0 THEN "raise"
    ELSE IF Accepted(r2) THEN "return"
    ELSE "raise"

\* lines 374-396 for a base with an id: the first request of
\* fetch_historical_prices_usd and the caller's except clauses.  A returned None
\* makes hist.empty (line 398) raise AttributeError outside the try.
HistRequest ==
    /\ script = "coingecko"
    /\ pc = "loop"
    /\ lpc = "top"
    /\ k <= Len(bases)
    /\ bases[k] \in sym2id
    /\ \E r \in Responses(PricePayloads) :
         LET s == bases[k]
             o == FirstOutcome(r)
         IN /\ log' = [log EXCEPT ![s] = Append(@, Seen(r))]
            /\ lastbars' = [lastbars EXCEPT ![s] = r.bars]
            /\ CASE o = "raise" -> Skip(s) /\ UNCHANGED <<pc, hist>>
                 [] o = "return" -> Return(s, r) /\ UNCHANGED pc
                 [] o = "retry" -> lpc' = "retry" /\ UNCHANGED <<pc, k, hist, fate>>
                 [] o = "none" -> pc' = "crashed" /\ UNCHANGED <<k, lpc, hist, fate>>
    /\ UNCHANGED <<script, bases, fit, page, allbases, warned, sym2id, rows, ccVars, outVars>>

\* lines 326-345: the one retry after a 429
HistRetry ==
    /\ script = "coingecko"
    /\ pc = "loop"
    /\ lpc = "retry"
    /\ \E r2 \in Responses(PricePayloads) :
         LET s == bases[k]
             o == RetryOutcome(r2)
         IN /\ log' = [log EXCEPT ![s] = Append(@, Seen(r2))]
            /\ lastbars' = [lastbars EXCEPT ![s] = r2.bars]
            /\ CASE o = "raise" -> Skip(s) /\ UNCHANGED hist
                 [] o = "return" -> Return(s, r2)
    /\ UNCHANGED <<script, pc, bases, fit, page, allbases, warned, sym2id, rows, ccVars, outVars>>

\* mutant of TallyFrom: a row of the tally is overwritten instead of added to
RECURSIVE TallyFromLastWins(_, _, _)
TallyFromLastWins(rws, h, i) ==
    IF i > Len(h) THEN rws
    ELSE LET closes == [j \in 1..Len(h) |-> h[j].close]
             e75 == ema_indicator(closes, EmaShort)[i]
             e200 == ema_indicator(closes, EmaLong)[i]
             a75 == IF Gt(closes[i], e75) THEN 1 ELSE 0
             a200 == IF Gt(closes[i], e200) THEN 1 ELSE 0
             new == [n |-> 1, p75 |-> a75, p200 |-> a200]
         IN IF e200 = NaN
            THEN TallyFromLastWins(rws, h, i + 1)
            ELSE TallyFromLastWins((h[i].time :> new) @@ rws, h, i + 1)

\* lines 404-417: the tally loop over the rows of hist from row i on
RECURSIVE TallyFrom(_, _, _)
TallyFrom(rws, h, i) ==
    IF i > Len(h) THEN rws
    ELSE LET closes == [j \in 1..Len(h) |-> h[j].close]
             e75 == ema_indicator(closes, EmaShort)[i]
             e200 == ema_indicator(closes, EmaLong)[i]
             a75 == IF Gt(closes[i], e75) THEN 1 ELSE 0
             a200 == IF Gt(closes[i], e200) THEN 1 ELSE 0
             tm == h[i].time
             old == IF tm \in DOMAIN rws THEN rws[tm] ELSE [n |-> 0, p75 |-> 0, p200 |-> 0]
             new == [n |-> old.n + 1, p75 |-> old.p75 + a75, p200 |-> old.p200 + a200]
         IN IF e200 = NaN
            THEN TallyFrom(rws, h, i + 1)
            ELSE TallyFrom((tm :> new) @@ rws, h, i + 1)

\* lines 398-419: the length check, the indicators and the tally of one symbol
TallySymbol ==
    /\ script = "coingecko"
    /\ pc = "loop"
    /\ lpc = "returned"
    /\ LET s == bases[k]
       IN IF TooShort(hist[s])
          THEN Skip(s) /\ UNCHANGED rows
          ELSE /\ rows' = TallyFrom(rows, hist[s], 1)
               /\ fate' = [fate EXCEPT ![s] = "accepted"]
               /\ k' = k + 1
               /\ lpc' = "top"
    /\ UNCHANGED <<script, pc, bases, fit, page, allbases, warned, sym2id, hist, lastbars, ccVars,
                   log, outVars>>

\* the for loop of line 373 is exhausted
LoopEnd ==
    /\ script = "coingecko"
    /\ pc = "loop"
    /\ lpc = "top"
    /\ k > Len(bases)
    /\ pc' = "finalize"
    /\ UNCHANGED <<script, bases, fit, cgVars, ccVars, log, fate, outVars>>

\* lines 422-431: the DataFrame `daily`, times ascending
FinalizeCG ==
    /\ script = "coingecko"
    /\ pc = "finalize"
    /\ LET times == SortedTimes(DOMAIN rows)
       IN /\ series75' = [i \in 1..Len(times) |->
                [time |-> times[i], num |-> 100 * rows[times[i]].p75, den |-> rows[times[i]].n]]
          /\ series200' = [i \in 1..Len(times) |->
                [time |-> times[i], num |-> 100 * rows[times[i]].p200, den |-> rows[times[i]].n]]
    /\ pc' = "write"
    /\ UNCHANGED <<script, bases, fit, cgVars, ccVars, log, fate, written>>

\* lines 434-446: both CSV files
WriteCG ==
    /\ script = "coingecko"
    /\ pc = "write"
    /\ written' = TRUE
    /\ pc' = "done"
    /\ UNCHANGED <<script, bases, fit, cgVars, ccVars, log, fate, series75, series200>>

NextCG ==
    \/ fetch_all_binance_usdt_bases
    \/ fetch_coin_list
    \/ NoCoinId
    \/ HistRequest
    \/ HistRetry
    \/ TallySymbol
    \/ LoopEnd
    \/ FinalizeCG
    \/ WriteCG

Next == NextCC \/ NextCG

Spec == Init /\ [][Next]_vars

\* ---------------------------------------------------- reference computations
\* process_base's tally loop (lines 192-208) run without interruption on tally b,
\* from iteration i on
RECURSIVE TallyBase(_, _, _, _, _)
TallyBase(b, s, dates, closes, i) ==
    IF i > Len(dates) THEN b
    ELSE LET date == dates[i]
             e75 == Ema75Arr(closes)[i]
             e200 == Ema200Arr(closes)[i]
             b1 == IF date \in DOMAIN b THEN b ELSE (date :> NewEntry(s)) @@ b
             b2 == IF e75 # None
                   THEN [b1 EXCEPT ![date].t75 = @ + 1,
                                   ![date].a75 = @ + (IF Gt(closes[i], e75) THEN 1 ELSE 0)]
                   ELSE b1
             b3 == IF e200 # None
                   THEN [b2 EXCEPT ![date].t200 = @ + 1,
                                   ![date].a200 = @ + (IF Gt(closes[i], e200) THEN 1 ELSE 0)]
                   ELSE b2
         IN TallyBase(b3, s, dates, closes, i + 1)

\* the tally obtained by processing bases[j..] one after another
RECURSIVE OneAfterAnother(_, _)
OneAfterAnother(b, j) ==
    IF j > Len(bases) THEN b
    ELSE LET s == bases[j]
         IN OneAfterAnother(
                IF fate[s] = "accepted" THEN TallyBase(b, s, wdates[s], wcloses[s], 1) ELSE b,
                j + 1)

\* the four counts of every date of a tally
Counts(b) == [d \in DOMAIN b |-> [c \in Counters |-> b[d][c]]]

PoolDrained == script = "cryptocompare" /\ pc \in {"finalize", "write", "done"}

\* ------------------------------------------------------------------ claims

\* C1: in every reachable state every tally entry has count-above <= count-total for
\* both windows, and every emitted percentage lies in [0, 100].
C1_AboveWithinTotal ==
    /\ \A d \in DOMAIN breadth :
         breadth[d].a75 <= breadth[d].t75 /\ breadth[d].a200 <= breadth[d].t200
    /\ \A tm \in DOMAIN rows :
         rows[tm].p75 <= rows[tm].n /\ rows[tm].p200 <= rows[tm].n
    /\ \A i \in DOMAIN series75 :
         0 <= series75[i].num /\ series75[i].num <= 100 * series75[i].den
    /\ \A i \in DOMAIN series200 :
         0 <= series200[i].num /\ series200[i].num <= 100 * series200[i].den

\* C2: for every interleaving of the pool's workers the final tally equals the tally
\* obtained by processing the same symbols one after another.
C2_FinalTallyAsOneAfterAnother ==
    PoolDrained => Counts(breadth) = Counts(OneAfterAnother(<<>>, 1))

\* the calendar days a history can cover
AllDays == 0..(LateStart + MaxLen)

\* the days of symbol s on which its EMA-200 is defined: from its EmaLong-th bar on
WarmDays(s) ==
    IF script = "cryptocompare"
    THEN {wdates[s][i] : i \in {j \in DOMAIN wdates[s] : j >= EmaLong}}
    ELSE {DateOf(hist[s][i].time) : i \in {j \in DOMAIN hist[s] : j >= EmaLong}}

\* the days the script is to emit: the cryptocompare script starts at OUTPUT_START
InWindow(d) == script = "cryptocompare" => d >= OutDay

OutDays(series) == {DateOf(series[i].time) : i \in DOMAIN series}

\* C3: a day is in the output series if and only if at least one non-skipped symbol
\* has a defined EMA-200 on that day; a day without one is omitted, not emitted as 0.
C3_DayPresentIffEma200Defined ==
    pc \in {"write", "done"} =>
        \A series \in {series75, series200} :
            OutDays(series) =
                {d \in AllDays : InWindow(d) /\ \E s \in Symbols :
                                    fate[s] = "accepted" /\ d \in WarmDays(s)}

\* C4: the long window gates both counters, so at every timestamp count-total-75
\* equals count-total-200.
C4_TotalsEqual ==
    \A d \in DOMAIN breadth : breadth[d].t75 = breadth[d].t200

\* C5: once the universe is resolved, no outcome of a history request ends the run:
\* it never stops on an uncaught error after a request, and when the symbols are
\* done every one of them has been accepted or skipped.
C5_RunSurvivesEveryOutcome ==
    /\ pc = "crashed" => \A s \in Symbols : log[s] = <<>>
    /\ pc \in {"finalize", "write", "done"} =>
          \A i \in DOMAIN bases : fate[bases[i]] # "pending"

\* C6: with an empty universe no history request is issued and no file is written.
C6_EmptyUniverseWritesNothing ==
    bases = <<>> => ~written /\ \A s \in Symbols : log[s] = <<>>

\* C10: a series reaches the indicator computation only if the response it came from
\* has a success status and a JSON content type.
C10_OnlySuccessJsonAccepted ==
    \A s \in Symbols :
        fate[s] = "accepted" =>
            LET r == log[s][Len(log[s])]
            IN r.status \in 200..299 /\ r.json

\* the first response of s was a 429
RateLimitedFirst(s) == log[s] # <<>> /\ log[s][1].status = 429

\* the 429 was followed by a second response, a 200 with a JSON content type
RetriedOk(s) ==
    /\ Len(log[s]) = 2
    /\ log[s][1].status = 429
    /\ log[s][2].status = 200 /\ log[s][2].json

\* series is built from the price points bars: a row for every calendar day of
\* bars, in order, each row a point of its day
BuiltFrom(series, bars) ==
    /\ {DateOf(series[i].time) : i \in DOMAIN series} = {DateOf(bars[i].time) : i \in DOMAIN bars}
    /\ \A i \in DOMAIN series : \E j \in DOMAIN bars : series[i] = bars[j]
    /\ \A i, j \in DOMAIN series : i < j => DateOf(series[i].time) < DateOf(series[j].time)

Transient(r) == r.status = 0 \/ r.status = 429 \/ (r.status \in 200..299 /\ ~r.json)

Gets401(s) ==
    /\ Len(log'[s]) = Len(log[s]) + 1
    /\ log'[s][Len(log'[s])].status = 401

RECURSIVE FoldAccepted(_, _)
FoldAccepted(rws, j) ==
    IF j > Len(bases) THEN rws
    ELSE LET s == bases[j]
         IN FoldAccepted(IF fate[s] = "accepted" THEN TallyFrom(rws, hist[s], 1) ELSE rws,
                         j + 1)

\* lines 410-417 for the histories hs, taken in the given order
RECURSIVE FoldRows(_, _, _)
FoldRows(rws, hs, order) ==
    IF order = <<>> THEN rws
    ELSE FoldRows(TallyFrom(rws, hs[Head(order)], 1), hs, Tail(order))

\* lines 192-208 for the histories hs (each its dates and closes), in the given order
RECURSIVE FoldBreadth(_, _, _)
FoldBreadth(b, hs, order) ==
    IF order = <<>> THEN b
    ELSE LET h == hs[Head(order)]
         IN FoldBreadth(TallyBase(b, h.name, h.dates, h.closes, 1), hs, Tail(order))

\* ------------------------------------------------------- claims, continued

\* a third history, folded in next to those of the two symbols of the run
ThirdBars == Bars("rising", MinDays, LateStart, 0)

\* the orders in which three histories can be folded
Orders == {o \in [1..3 -> 1..3] : \A i, j \in 1..3 : i # j => o[i] # o[j]}

\* C11: a symbol whose returned history has fewer than MinDays daily points is skipped
\* before any indicator is computed; the step that skips it leaves the tally as it
\* is, the symbol creates no entry, and the final tally is that of the accepted
\* symbols alone.
C11_ShortHistoryLeavesTallyAlone ==
    /\ [](\A s \in Symbols :
            /\ (script = "cryptocompare" /\ wpc[s] \notin {"none", "queued"} /\ wlen[s] < MinDays) =>
                  /\ fate[s] = "skipped" /\ wpc[s] = "done"
                  /\ wdates[s] = <<>> /\ wcloses[s] = <<>>
                  /\ \A d \in DOMAIN breadth : breadth[d].id # s
            /\ (script = "coingecko" /\ fate[s] # "pending" /\ Len(hist[s]) < MinDays) =>
                  fate[s] = "skipped")
    /\ []((script = "coingecko" /\ pc \in {"finalize", "write", "done"}) =>
            rows = FoldAccepted(<<>>, 1))
    /\ [](PoolDrained =>
            LET acc == {s \in Symbols : fate[s] = "accepted"}
                seq == OneAfterAnother(<<>>, 1)
            IN /\ DOMAIN breadth = UNION {Range(wdates[s]) : s \in acc}
               /\ \A d \in DOMAIN breadth : \A c \in Counters : breadth[d][c] <= seq[d][c]
               /\ Cardinality(acc) <= 1 => Counts(breadth) = Counts(seq))
    /\ [][\A s \in Symbols :
            (fate[s] # "skipped" /\ fate'[s] = "skipped") =>
                (breadth' = breadth /\ rows' = rows)]_vars

C11_Witness ==
    /\ script = "cryptocompare" /\ pc = "done"
    /\ wlen["BNB"] = MinDays - 1 /\ fate["BNB"] = "skipped"
    /\ fate["BTC"] = "accepted" /\ breadth # <<>>

\* C12: folding the symbols' histories into the tally in any order gives the same
\* mapping: the same keys and the same counts under every key.  Checked, once the
\* symbols are done, for the histories of the run's two symbols and a third one.
C12_AnyOrderSameTally ==
    (pc = "finalize" /\ \A s \in Symbols : fate[s] = "accepted") =>
        IF script = "cryptocompare"
        THEN LET hs == << [name |-> "BNB", dates |-> wdates["BNB"], closes |-> wcloses["BNB"]],
                          [name |-> "BTC", dates |-> wdates["BTC"], closes |-> wcloses["BTC"]],
                          [name |-> "ETH",
                           dates |-> [i \in DOMAIN ThirdBars |-> DateOf(ThirdBars[i].time)],
                           closes |-> [i \in DOMAIN ThirdBars |-> ThirdBars[i].close]] >>
             IN Cardinality({Counts(FoldBreadth(<<>>, hs, o)) : o \in Orders}) = 1
        ELSE LET hs == <<hist["BNB"], hist["BTC"], ThirdBars>>
             IN Cardinality({FoldRows(<<>>, hs, o) : o \in Orders}) = 1

C12_Witness ==
    /\ script = "coingecko" /\ pc = "finalize"
    /\ \A s \in Symbols : fate[s] = "accepted"
    /\ hist["BNB"] # hist["BTC"]
    /\ \E tm \in DOMAIN rows : rows[tm].n = 2 /\ rows[tm].p75 = 1

\* the closes of a symbol's returned history
ClosesOf(s) ==
    IF script = "cryptocompare" THEN wcloses[s]
    ELSE [j \in 1..Len(hist[s]) |-> hist[s][j].close]

\* the EMA sequence the tally loop indexes for window p
EmaUsed(s, p) ==
    IF script = "cryptocompare"
    THEN (IF p = EmaShort THEN Ema75Arr(ClosesOf(s)) ELSE Ema200Arr(ClosesOf(s)))
    ELSE ema_indicator(ClosesOf(s), p)

Absent(e) == e = None \/ e = NaN

\* C13: the EMA sequence the tally uses has the length N of the price series, entry i
\* is the EMA of day i, exactly the first p-1 entries are absent, and an absent entry
\* is never counted into count-total.
C13_EmaAlignedToSeries ==
    \A s \in Symbols : fate[s] = "accepted" =>
        \A p \in {EmaShort, EmaLong} :
            LET closes == ClosesOf(s)
                seq == EmaUsed(s, p)
            IN /\ Len(seq) = Len(closes)
               /\ \A i \in 1..Len(closes) :
                    /\ i < p => Absent(seq[i])
                    /\ i >= p => (~Absent(seq[i]) /\ seq[i] = ema_indicator(closes, p)[i])
                    /\ (script = "cryptocompare" /\ Absent(seq[i])) => seq[i] = None

\* the sum of the first n closes
RECURSIVE SumFirst(_, _)
SumFirst(closes, n) == IF n = 0 THEN 0 ELSE SumFirst(closes, n - 1) + closes[n]

\* one step of the recurrence: y + 2/(p+1) * (c - y), as a fraction
Smooth(y, c, p) == [num |-> (p - 1) * y.num + 2 * c * y.den, den |-> (p + 1) * y.den]

\* the recurrence started at the first close and run up to day i
RECURSIVE FromFirstClose(_, _, _)
FromFirstClose(closes, p, i) ==
    IF i = 1 THEN [num |-> closes[1], den |-> 1]
    ELSE Smooth(FromFirstClose(closes, p, i - 1), closes[i], p)

SameValue(a, b) == a.num * b.den = b.num * a.den

\* every later value follows from the one before by the recurrence
FollowsRecurrence(closes, p) ==
    LET e == ema_indicator(closes, p)
    IN \A i \in (p + 1)..Len(closes) :
          ~Absent(e[i]) /\ SameValue(e[i], Smooth(e[i - 1], closes[i], p))

C15_UniverseOnlyFromFitEntries ==
    /\ \A i \in DOMAIN bases : bases[i] \in fit /\ bases[i] \notin STABLES
    /\ \A s \in Symbols : log[s] # <<>> => (s \in fit /\ s \notin STABLES)

\* C16: the universe is the complete listing of one source, never the partial listing
\* of a source that failed part-way through its pages.
C16_NoPartialListing ==
    warned => bases = <<>>

\* C17: every timestamp of either output series is on or after the output start date.
C17_NothingEmittedBeforeOutputStart ==
    \A i \in DOMAIN series75 \cup DOMAIN series200 :
        /\ i \in DOMAIN series75 => DateOf(series75[i].time) >= OutDay
        /\ i \in DOMAIN series200 => DateOf(series200[i].time) >= OutDay

\* C18: the tally has one entry per calendar day: every key is the midnight of its
\* day, and no two keys fall on the same day.
C18_OneEntryPerCalendarDay ==
    /\ \A tm \in DOMAIN rows : tm[2] = 0
    /\ \A a, b \in DOMAIN rows : DateOf(a) = DateOf(b) => a = b
    /\ \A d \in DOMAIN breadth : d \in AllDays

Finalizing == pc \in {"finalize", "write", "done"}

\* C19: the percentages are computed only after every symbol of the universe has
\* contributed or been skipped (all workers finished, the loop ended), and from the
\* start of finalization on no tally entry changes.
C19_AccumulateThenFinalize ==
    /\ [](Finalizing =>
            /\ \A i \in DOMAIN bases : fate[bases[i]] # "pending"
            /\ \A s \in Symbols : wpc[s] \in {"none", "done"}
            /\ script = "coingecko" => (lpc = "top" /\ k > Len(bases)))
    /\ []((series75 # <<>> \/ series200 # <<>> \/ written) => pc \in {"write", "done"})
    /\ [][Finalizing => (breadth' = breadth /\ rows' = rows /\ Finalizing')]_vars

C19_Witness ==
    /\ script = "cryptocompare" /\ pc = "write"
    /\ \A s \in Symbols : fate[s] = "accepted"
    /\ series75 # <<>>

====
